---- MODULE Spec2Model ----
(***************************************************************************)
(* Model of src/T-u-ring.py: class TuringMachine (a single-tape            *)
(* deterministic Turing machine) with its nested class Action.             *)
(*                                                                         *)
(* Python values are modelled as follows.                                  *)
(*   - a str (a line of the description file, a field of a line, a tape   *)
(*     snapshot) is the sequence of its one-character strings; a list of  *)
(*     characters (tape_contents) is a sequence whose cells are strings of *)
(*     length 0 or 1 ("" is the empty string a transition may write);      *)
(*   - a dict is a function whose DOMAIN is its key set; the defaultdict   *)
(*     action_table creates an empty dict on the first read of a key;      *)
(*   - list indexing follows Python: index h is valid iff                  *)
(*     -len <= h < len, a negative h counting from the end; any other h    *)
(*     raises IndexError;                                                  *)
(*   - the value an execute() call ends with is a record                   *)
(*     [kind, trace, steps]: kind "trace" (the list returned), "None"      *)
(*     (the error return) or "IndexError" (an exception left execute).     *)
(***************************************************************************)
EXTENDS Integers, Sequences, FiniteSets, TLC

\* ---------------------------------------------------------------- bounds
\* longest initial tape in a description file
MaxTape == 1
\* head offsets in a description file range over -MaxHead..MaxHead
MaxHead == 1
\* most transition lines in a description file
MaxLines == 2
\* most loop iterations of one execute() call that the model follows
MaxSteps == 3

\* ---------------------------------------------------- program constants
\* "if len(lines) < 4": the lines every description file starts with
HeaderLines == 4
\* "if len(line) < 5": the values a transition line has to supply
FieldsNeeded == 5

\* ------------------------------------------------------------ input sets
\* the TuringMachine objects a host may construct
Machines == {1, 2}

\* state indices used in description files
StateIds == {0, 1}

\* characters of initial tapes
TapeAlphabet == {"1", "-"}

\* <State index> <Read> <Write> <Direction> <New state index> lines a file
\* may hold: exact and wildcard keys, writes of a symbol, of "*" (no write)
\* and of the empty field, all three directions, duplicate keys.
Line(s, r, w, d, n) ==
    [state |-> s, read |-> r, write |-> w, direction |-> d, new_state |-> n]

Lines ==
    { Line(0, "1", "0", 1, 0),
      Line(0, "1", "*", 0, 1),
      Line(0, "*", "*", -1, 0),
      Line(0, "*", "1", -1, 1),
      Line(0, "-", "", 1, 0),
      Line(1, "*", "0", 1, 1),
      Line(1, "-", "*", -1, 0),
      Line(1, "1", "-", 0, 0) }

RECURSIVE SeqsUpTo(_, _)
SeqsUpTo(S, n) ==
    IF n = 0 THEN { <<>> }
    ELSE LET shorter == SeqsUpTo(S, n - 1)
         IN  shorter \cup { Append(q, x) : q \in { p \in shorter : Len(p) = n - 1 }, x \in S }

\* description files read_machine accepts, already split into their fields
Files ==
    [ tape  : SeqsUpTo(TapeAlphabet, MaxTape),
      head  : (0 - MaxHead)..MaxHead,
      state : StateIds,
      halt  : StateIds,
      lines : SeqsUpTo(Lines, MaxLines) ]

\* ------------------------------------------------------- Python helpers
\* "".join(list): the concatenation of the cells
RECURSIVE Join(_)
Join(cells) ==
    IF cells = <<>> THEN <<>>
    ELSE (IF Head(cells) = "" THEN <<>> ELSE <<Head(cells)>>) \o Join(Tail(cells))

\* list[h] does not raise IndexError
ValidIndex(list, h) == (0 - Len(list)) <= h /\ h < Len(list)

\* the 1-based position Python's list[h] denotes
Position(list, h) == IF h >= 0 THEN h + 1 ELSE Len(list) + h + 1

GetItem(list, h) == list[Position(list, h)]

\* variant: the assignment lands on the first cell, whatever the index
SetItem_first(list, h, v) == [list EXCEPT ![1] = v]

SetItem(list, h, v) == [list EXCEPT ![Position(list, h)] = v]

EmptyDict == <<>>

DictSet(d, k, v) == [x \in (DOMAIN d) \cup {k} |-> IF x = k THEN v ELSE d[x]]

\* defaultdict(dict).__getitem__: the table after reading key k
Touch(table, k) == IF k \in DOMAIN table THEN table ELSE DictSet(table, k, EmptyDict)

\* str.split(' '): the fields between single spaces (two spaces in a row
\* enclose an empty field; the empty string has one empty field)
RECURSIVE Split(_)
Split(s) ==
    IF s = <<>> THEN << <<>> >>
    ELSE LET rest == Split(Tail(s))
         IN  IF Head(s) = " " THEN << <<>> >> \o rest
             ELSE << << Head(s) >> \o Head(rest) >> \o Tail(rest)

DigitChars == << "0", "1", "2", "3", "4", "5", "6", "7", "8", "9" >>

IsDigit(c) == \E i \in DOMAIN DigitChars : DigitChars[i] = c

DigitValue(c) == (CHOOSE i \in DOMAIN DigitChars : DigitChars[i] = c) - 1

\* the digits of a decimal literal, most significant first
RECURSIVE Magnitude(_)
Magnitude(digits) ==
    IF digits = <<>> THEN 0
    ELSE Magnitude(SubSeq(digits, 1, Len(digits) - 1)) * Len(DigitChars)
         + DigitValue(digits[Len(digits)])

Unsigned(s) == IF s # <<>> /\ Head(s) \in {"-", "+"} THEN Tail(s) ELSE s

\* int(s) does not raise ValueError: an optional sign and at least one digit
\* (the file characters of the model hold no blanks and no underscores)
IsInt(s) ==
    /\ Unsigned(s) # <<>>
    /\ \A i \in DOMAIN Unsigned(s) : IsDigit(Unsigned(s)[i])

\* int(s)
IntValue(s) ==
    IF Head(s) = "-" THEN 0 - Magnitude(Unsigned(s)) ELSE Magnitude(Unsigned(s))

\* abs(n)
Abs(n) == IF n < 0 THEN 0 - n ELSE n

\* the decimal literal of n, as a description file spells it
RECURSIVE NaturalText(_)
NaturalText(n) ==
    IF n < Len(DigitChars) THEN << DigitChars[n + 1] >>
    ELSE Append(NaturalText(n \div Len(DigitChars)), DigitChars[(n % Len(DigitChars)) + 1])

IntText(n) == IF n < 0 THEN << "-" >> \o NaturalText(0 - n) ELSE NaturalText(n)

\* a field of at most one character as the str it is, and back
FieldStr(field) == IF field = <<>> THEN "" ELSE field[1]

FieldText(c) == IF c = "" THEN <<>> ELSE << c >>

\* the text of the transition line l
LineText(l) ==
    IntText(l.state) \o << " " >> \o FieldText(l.read) \o << " " >> \o FieldText(l.write)
        \o << " " >> \o IntText(l.direction) \o << " " >> \o IntText(l.new_state)

\* f.read().splitlines() of the description file f
Text(f) ==
    << f.tape, IntText(f.head), IntText(f.state), IntText(f.halt) >>
        \o [i \in 1..Len(f.lines) |-> LineText(f.lines[i])]

\* ---------------------------------------------------------------- state
VARIABLES
    file,               \* the description the host wrote into the file
    text,               \* the lines of the file, as read_machine reads them
    instances,          \* the machines the host loads and executes
    tape_contents,      \* self.tape_contents, per machine
    head,               \* self.head
    state,              \* self.state
    halt_state,         \* self.halt_state
    action_table,       \* self.action_table
    all_tape_contents,  \* the local list execute() accumulates
    read,               \* the local key execute() keeps for the action to take
    pc,                 \* "new", "loaded" or "rejected" (read_machine returned
                        \* True or False), "running" (in the while loop), "done"
    result,             \* what the finished execute() call ended with
    tape_history        \* tape_contents after 0, 1, 2, ... iterations of the call

vars == << file, text, instances, tape_contents, head, state, halt_state, action_table,
           all_tape_contents, read, pc, result, tape_history >>

\* a local variable not assigned yet
Unset == "unset"

NoResult == [kind |-> "pending", trace |-> <<>>, steps |-> 0]

\* TuringMachine.__init__
Constructed ==
    /\ tape_contents = [m \in Machines |-> <<>>]
    /\ head = [m \in Machines |-> 0]
    /\ state = [m \in Machines |-> 0]
    /\ halt_state = [m \in Machines |-> 0]
    /\ action_table = [m \in Machines |-> EmptyDict]
    /\ all_tape_contents = [m \in Machines |-> <<>>]
    /\ read = [m \in Machines |-> Unset]
    /\ pc = [m \in Machines |-> "new"]
    /\ result = [m \in Machines |-> NoResult]
    /\ tape_history = [m \in Machines |-> <<>>]

Init ==
    /\ file \in Files
    /\ text = Text(file)
    /\ instances = {1}
    /\ Constructed

\* ---------------------------------------------------------- read_machine
\* variant: every action refers to one machine shared by all tables
Action_one_machine(m, w, d, n) ==
    [turing_machine |-> 1, write |-> w, direction |-> d, new_state |-> n]

\* TuringMachine.Action(self, write, direction, new_state)
Action(m, w, d, n) ==
    [turing_machine |-> m, write |-> w, direction |-> d, new_state |-> n]

\* variant: a line whose key is in the table already is skipped
RECURSIVE AddLines_first_wins(_, _, _)
AddLines_first_wins(table, m, lines) ==
    IF lines = <<>> THEN table
    ELSE LET l == Head(lines)
             t == Touch(table, l.state)
         IN  AddLines_first_wins(
                 IF l.read \in DOMAIN t[l.state] THEN t
                 ELSE DictSet(t, l.state,
                              DictSet(t[l.state], l.read,
                                      Action(m, l.write, l.direction, l.new_state))),
                 m, Tail(lines))

\* the loop over the transition lines: each line sets
\* action_table[state][read], creating the per-state dict on first use
RECURSIVE AddLines(_, _, _)
AddLines(table, m, lines) ==
    IF lines = <<>> THEN table
    ELSE LET l == Head(lines)
             t == Touch(table, l.state)
         IN  AddLines(DictSet(t, l.state,
                              DictSet(t[l.state], l.read,
                                      Action(m, l.write, l.direction, l.new_state))),
                      m, Tail(lines))

\* the checks a transition line passes: enough values, read and write of
\* no more than one character, a direction of -1, 0 or 1, and no ValueError
\* from int() on the state, the direction and the new state
LineAccepted(fields) ==
    /\ ~(Len(fields) < FieldsNeeded)
    /\ ~(Len(fields[2]) > 1)
    /\ ~(Len(fields[3]) > 1)
    /\ IsInt(fields[4])
    /\ ~(Abs(IntValue(fields[4])) > 1)
    /\ IsInt(fields[5])
    /\ IsInt(fields[1])

\* <State index> <Read> <Write> <Direction> <New state index> of a line
ParsedLine(fields) ==
    Line(IntValue(fields[1]), FieldStr(fields[2]), FieldStr(fields[3]),
         IntValue(fields[4]), IntValue(fields[5]))

\* the loop over lines[4:]: it stops, with the entries added so far, at the
\* first line that fails a check
RECURSIVE LoadLines(_, _, _)
LoadLines(table, m, texts) ==
    IF texts = <<>> THEN [ok |-> TRUE, table |-> table]
    ELSE LET fields == Split(Head(texts))
         IN  IF LineAccepted(fields)
             THEN LoadLines(AddLines(table, m, << ParsedLine(fields) >>), m, Tail(texts))
             ELSE [ok |-> FALSE, table |-> table]

\* the machine's attributes when read_machine returns, and its success flag:
\* the assignments made before a failing check stay
Loaded(m) ==
    LET old == [ok |-> FALSE, tape |-> tape_contents[m], head |-> head[m],
                state |-> state[m], halt |-> halt_state[m], table |-> action_table[m]]
    IN  IF Len(text) < HeaderLines THEN old
        ELSE LET tape == [old EXCEPT !.tape = text[1]]
             IN  IF ~IsInt(text[2]) THEN tape
                 ELSE LET offset == [tape EXCEPT !.head = IntValue(text[2])]
                      IN  IF ~IsInt(text[3]) THEN offset
                          ELSE LET start == [offset EXCEPT !.state = IntValue(text[3])]
                               IN  IF ~IsInt(text[4]) THEN start
                                   ELSE LET all == LoadLines(action_table[m], m,
                                                             SubSeq(text, HeaderLines + 1, Len(text)))
                                        IN  [start EXCEPT !.halt = IntValue(text[4]),
                                                          !.table = all.table,
                                                          !.ok = all.ok]

read_machine(m) ==
    /\ m \in instances
    /\ pc[m] = "new"
    /\ \E loaded \in { Loaded(m) } :
           /\ tape_contents' = [tape_contents EXCEPT ![m] = loaded.tape]
           /\ head' = [head EXCEPT ![m] = loaded.head]
           /\ state' = [state EXCEPT ![m] = loaded.state]
           /\ halt_state' = [halt_state EXCEPT ![m] = loaded.halt]
           /\ action_table' = [action_table EXCEPT ![m] = loaded.table]
           /\ pc' = [pc EXCEPT ![m] = IF loaded.ok THEN "loaded" ELSE "rejected"]
    /\ UNCHANGED << file, text, instances, all_tape_contents, read, result, tape_history >>

\* ---------------------------------------------------------- take_action
\* variant: "*" is written like any other character
Write_always(a, list, h) == SetItem(list, h, a.write)

\* the replacement of the character under the head, unless write is "*"
Write(a, list, h) == IF a.write # "*" THEN SetItem(list, h, a.write) ELSE list

\* variant: the blank for a head past the last cell is put in front
Extend_wrong_end(list, h) ==
    IF h < 0 \/ h >= Len(list) THEN <<"-">> \o list ELSE list

\* variant: a blank is appended as soon as the head reaches the last cell
Extend_eager(list, h) ==
    IF h < 0 THEN <<"-">> \o list
    ELSE IF h >= Len(list) - 1 THEN Append(list, "-")
    ELSE list

\* variant: the tape is not extended on the right
Extend_left_only(list, h) == IF h < 0 THEN <<"-">> \o list ELSE list

\* the growth of the tracked tape once the head has moved to h
Extend(list, h) ==
    IF h < 0 THEN <<"-">> \o list
    ELSE IF h >= Len(list) THEN Append(list, "-")
    ELSE list

\* variant: the head is not reset after the tape grew on the left
Normalise_skipped(h) == h

\* the head after the growth
Normalise(h) == IF h < 0 THEN 0 ELSE h

\* Action.take_action: acts on the machine the action refers to
take_action(a) ==
    LET o == a.turing_machine
        written == Write(a, tape_contents[o], head[o])
        moved == head[o] + a.direction
    IN  /\ tape_contents' = [tape_contents EXCEPT ![o] = Extend(written, moved)]
        /\ head' = [head EXCEPT ![o] = Normalise(moved)]
        /\ state' = [state EXCEPT ![o] = a.new_state]

\* -------------------------------------------------------------- execute
NotFound == "NotFound"

\* variant: a state without entries ends the loop like the halt state
Halted_on_unknown_state(m) ==
    state[m] = halt_state[m] \/ state[m] \notin DOMAIN action_table[m]

\* variant: the halt state is tested at the end of an iteration only
Halted_after_iteration(m) == state[m] = halt_state[m] /\ Len(tape_history[m]) > 1

\* the while condition
Halted(m) == state[m] = halt_state[m]

\* variant: the membership test is left to the defaultdict
KnownState_unchecked(m) == TRUE

\* "self.state not in self.action_table" is false
KnownState(m) == state[m] \in DOMAIN action_table[m]

\* the table after the reads self.action_table[self.state] of one iteration
Consulted(m) == Touch(action_table[m], state[m])

\* variant: the wildcard entry is tried before the exact one
Read_wildcard_first(m) ==
    LET entries == Consulted(m)[state[m]]
        symbol == GetItem(tape_contents[m], head[m])
    IN  IF "*" \in DOMAIN entries THEN "*"
        ELSE IF symbol \in DOMAIN entries THEN symbol
        ELSE NotFound

\* the key kept in the variable read: the character under the head when the
\* state has an entry for it, else "*" when it has one, else no key
Read(m) ==
    LET entries == Consulted(m)[state[m]]
        symbol == GetItem(tape_contents[m], head[m])
    IN  IF symbol \in DOMAIN entries THEN symbol
        ELSE IF "*" \in DOMAIN entries THEN "*"
        ELSE NotFound

\* the action the iteration takes
Dispatched(m) == Consulted(m)[state[m]][Read(m)]

\* variant: the error return hands out the snapshots accumulated so far
Returned_partial(m, kind, trace) ==
    [kind |-> IF kind = "None" THEN "trace" ELSE kind,
     trace |-> IF kind = "None" THEN all_tape_contents[m] ELSE trace,
     steps |-> Len(tape_history[m]) - 1]

\* what a call that has run so far ends with
Returned(m, kind, trace) ==
    [kind |-> kind, trace |-> trace, steps |-> Len(tape_history[m]) - 1]

\* the first statement of execute()
execute_begin(m) ==
    /\ m \in instances
    /\ pc[m] = "loaded"
    /\ all_tape_contents' = [all_tape_contents EXCEPT ![m] = << Join(tape_contents[m]) >>]
    /\ tape_history' = [tape_history EXCEPT ![m] = << tape_contents[m] >>]
    /\ read' = [read EXCEPT ![m] = Unset]
    /\ pc' = [pc EXCEPT ![m] = "running"]
    /\ UNCHANGED << file, text, instances, tape_contents, head, state, halt_state,
                    action_table, result >>

\* the loop ends: return all_tape_contents
execute_return(m) ==
    /\ pc[m] = "running"
    /\ Halted(m)
    /\ result' = [result EXCEPT ![m] = Returned(m, "trace", all_tape_contents[m])]
    /\ pc' = [pc EXCEPT ![m] = "done"]
    /\ UNCHANGED << file, text, instances, tape_contents, head, state, halt_state,
                    action_table, all_tape_contents, read, tape_history >>

\* the current state is not in the action table: return None
execute_no_state(m) ==
    /\ pc[m] = "running"
    /\ ~Halted(m)
    /\ ~KnownState(m)
    /\ result' = [result EXCEPT ![m] = Returned(m, "None", <<>>)]
    /\ pc' = [pc EXCEPT ![m] = "done"]
    /\ UNCHANGED << file, text, instances, tape_contents, head, state, halt_state,
                    action_table, all_tape_contents, read, tape_history >>

\* an index of the iteration is outside the list: IndexError leaves execute()
Raises(m) ==
    IF ~ValidIndex(tape_contents[m], head[m]) THEN TRUE
    ELSE /\ Read(m) # NotFound
         /\ Dispatched(m).write # "*"
         /\ LET o == Dispatched(m).turing_machine
            IN  ~ValidIndex(tape_contents[o], head[o])

execute_raise(m) ==
    /\ pc[m] = "running"
    /\ ~Halted(m)
    /\ KnownState(m)
    /\ Raises(m)
    /\ action_table' = [action_table EXCEPT ![m] = Consulted(m)]
    /\ read' = IF ValidIndex(tape_contents[m], head[m])
               THEN [read EXCEPT ![m] = Read(m)]
               ELSE read
    /\ result' = [result EXCEPT ![m] = Returned(m, "IndexError", <<>>)]
    /\ pc' = [pc EXCEPT ![m] = "done"]
    /\ UNCHANGED << file, text, instances, tape_contents, head, state, halt_state,
                    all_tape_contents, tape_history >>

\* neither the character read nor "*" has an action: return None
execute_no_action(m) ==
    /\ pc[m] = "running"
    /\ ~Halted(m)
    /\ KnownState(m)
    /\ ~Raises(m)
    /\ Read(m) = NotFound
    /\ action_table' = [action_table EXCEPT ![m] = Consulted(m)]
    /\ result' = [result EXCEPT ![m] = Returned(m, "None", <<>>)]
    /\ pc' = [pc EXCEPT ![m] = "done"]
    /\ UNCHANGED << file, text, instances, tape_contents, head, state, halt_state,
                    all_tape_contents, read, tape_history >>

\* variant: the snapshot is taken before the action
Appended_before_action(m) == Append(all_tape_contents[m], Join(tape_contents[m]))

\* all_tape_contents.append("".join(self.tape_contents)), after the action
Appended(m) == Append(all_tape_contents[m], Join(tape_contents'[m]))

\* one full iteration: take the action, append the new tape contents
execute_step(m) ==
    /\ pc[m] = "running"
    /\ ~Halted(m)
    /\ KnownState(m)
    /\ ~Raises(m)
    /\ Read(m) # NotFound
    /\ Len(tape_history[m]) <= MaxSteps
    /\ read' = [read EXCEPT ![m] = Read(m)]
    /\ take_action(Dispatched(m))
    /\ action_table' = [action_table EXCEPT ![m] = Consulted(m)]
    /\ all_tape_contents' = [all_tape_contents EXCEPT ![m] = Appended(m)]
    /\ tape_history' = [tape_history EXCEPT ![m] = Append(@, tape_contents'[m])]
    /\ UNCHANGED << file, text, instances, halt_state, pc, result >>

Next ==
    \E m \in Machines :
        \/ read_machine(m)
        \/ execute_begin(m)
        \/ execute_return(m)
        \/ execute_no_state(m)
        \/ execute_raise(m)
        \/ execute_no_action(m)
        \/ execute_step(m)

\* one machine, loaded from any description file and executed once
Spec == Init /\ [][Next]_vars

\* two machines, each loaded from the same description file and executed
\* once, their iterations interleaved in any order
InitPair ==
    /\ file \in Files
    /\ text = Text(file)
    /\ instances = Machines
    /\ Constructed

SpecPair == InitPair /\ [][Next]_vars

\* -------------------------------------------------- a shared action table
\* the host gives machine m the configuration of the file and, instead of
\* a table of its own, the action_table object machine o has loaded; the
\* Action objects in it keep referring to o
share_action_table(m, o) ==
    /\ o \in instances
    /\ pc[o] \in {"loaded", "running", "done"}
    /\ m \notin instances
    /\ pc[m] = "new"
    /\ instances' = instances \cup {m}
    /\ tape_contents' = [tape_contents EXCEPT ![m] = file.tape]
    /\ head' = [head EXCEPT ![m] = file.head]
    /\ state' = [state EXCEPT ![m] = file.state]
    /\ halt_state' = [halt_state EXCEPT ![m] = file.halt]
    /\ action_table' = [action_table EXCEPT ![m] = action_table[o]]
    /\ pc' = [pc EXCEPT ![m] = "loaded"]
    /\ UNCHANGED << file, text, all_tape_contents, read, result, tape_history >>

NextShared ==
    \E m \in Machines :
        \/ read_machine(m)
        \/ execute_begin(m)
        \/ execute_return(m)
        \/ execute_no_state(m)
        \/ execute_raise(m)
        \/ execute_no_action(m)
        \/ execute_step(m)
        \/ \E o \in Machines : share_action_table(m, o)

\* machine 1 loads the file; machine 2 runs the same configuration on
\* machine 1's table; their iterations interleave in any order
SpecShared == Init /\ [][NextShared]_vars

\* ------------------------------------------------- the loader on raw text
\* most fields of a transition line of a raw description text
MaxFields == 6

\* fields of raw lines: empty, a one-character integer, an integer of two
\* characters, an integer that is no direction, and a non-integer
Tokens == { <<>>, << "1" >>, << "-", "1" >>, << "2" >>, << "x" >> }

\* ' '.join(fields): the line that splits into the fields
RECURSIVE JoinFields(_)
JoinFields(fields) ==
    IF Len(fields) = 1 THEN Head(fields)
    ELSE Head(fields) \o << " " >> \o JoinFields(Tail(fields))

\* the lines of at most n fields
LineTexts(n) == { JoinFields(fields) : fields \in SeqsUpTo(Tokens, n) \ { <<>> } }

\* four header lines and a transition line that read_machine accepts
GoodHeader == << << "1" >>, << "1" >>, << "1" >>, << "2" >> >>

GoodLine == JoinFields(<< << "1" >>, << "1" >>, << "x" >>, << "-", "1" >>, << "2" >> >>)

\* raw description texts: every text of up to HeaderLines lines, and the
\* good header followed by any transition line of at most n fields, alone
\* or before or after a good one
Texts(n) ==
    LET lines == LineTexts(n)
    IN  SeqsUpTo(Tokens, HeaderLines)
            \cup { GoodHeader \o << l >> : l \in lines }
            \cup { GoodHeader \o << GoodLine, l >> : l \in lines }
            \cup { GoodHeader \o << l, GoodLine >> : l \in lines }

\* the description record of a run that starts from a raw text
NoFile == [tape |-> <<>>, head |-> 0, state |-> 0, halt |-> 0, lines |-> <<>>]

InitText ==
    /\ text \in Texts(MaxFields)
    /\ file = NoFile
    /\ instances = {1}
    /\ Constructed

NextText == \E m \in Machines : read_machine(m)

\* read_machine alone, on any raw text
SpecText == InitText /\ [][NextText]_vars

\* ------------------------------------------------------------- scenario A
\* tape "101", head 0, start state 0, halt state 1 and the two transitions
\* (0,'1','0',1,0) and (0,'0','*',1,1)
ScenarioA ==
    [ tape  |-> << "1", "0", "1" >>,
      head  |-> 0,
      state |-> 0,
      halt  |-> 1,
      lines |-> << Line(0, "1", "0", 1, 0), Line(0, "0", "*", 1, 1) >> ]

\* scenario A and its neighbours: every tape of its length over its
\* characters, every head offset up to the first one past the tape, every
\* list of its transition lines no longer than its own
ScenarioFiles ==
    [ tape  : [DOMAIN ScenarioA.tape -> { ScenarioA.tape[i] : i \in DOMAIN ScenarioA.tape }],
      head  : 0..Len(ScenarioA.tape),
      state : { ScenarioA.state },
      halt  : { ScenarioA.halt },
      lines : SeqsUpTo({ ScenarioA.lines[i] : i \in DOMAIN ScenarioA.lines },
                       Len(ScenarioA.lines)) ]

InitScenario ==
    /\ file \in ScenarioFiles
    /\ text = Text(file)
    /\ instances = {1}
    /\ Constructed

\* one machine, loaded from scenario A or a neighbour and executed once
SpecScenario == InitScenario /\ [][Next]_vars

\* ================================================================ claims
\* machine m's execute() performs one loop test, return or iteration
Iterates(m) ==
    /\ pc[m] = "running"
    /\ (pc'[m] # pc[m] \/ tape_history'[m] # tape_history[m])

\* machine m's execute() completes one iteration (one step)
Steps(m) ==
    /\ pc[m] = "running"
    /\ Len(tape_history'[m]) = Len(tape_history[m]) + 1

\* the number of steps machine m's call has completed
StepsTaken(m) == Len(tape_history[m]) - 1

\* the action machine m's step has just taken (read' is the key it kept)
Taken(m) == action_table[m][state[m]][read'[m]]

\* the action machine m's first step took, once exactly one step is done
FirstTaken(m) == action_table[m][file.state][read[m]]

\* C1: after every completed step the head is inside the tracked tape:
\* 0 <= head < len(tape_contents).
C1_HeadInBounds ==
    \A m \in Machines :
        StepsTaken(m) >= 1 =>
            /\ 0 <= head[m]
            /\ head[m] < Len(tape_contents[m])

\* a step was completed from a negative head offset and the tape has grown
C1_Witness ==
    \E m \in Machines :
        /\ StepsTaken(m) >= 1
        /\ file.head < 0
        /\ Len(tape_contents[m]) > Len(file.tape)

\* the key lookup(state, symbol) of the specification selects
LookupKey(table, s, c) ==
    IF s \in DOMAIN table /\ c \in DOMAIN table[s] THEN c
    ELSE IF s \in DOMAIN table /\ "*" \in DOMAIN table[s] THEN "*"
    ELSE NotFound

\* C2: an iteration in state s reading c takes the exact entry for (s, c)
\* if there is one, else the wildcard entry of s if there is one, else no
\* action at all (the call ends with the error result).
C2_ExactBeforeWildcard ==
    [][ \A m \in Machines :
          (Iterates(m) /\ ~(state[m] = halt_state[m])
                       /\ ValidIndex(tape_contents[m], head[m])) =>
              LET c == GetItem(tape_contents[m], head[m])
                  key == LookupKey(action_table[m], state[m], c)
              IN  IF key = NotFound
                  THEN /\ tape_history'[m] = tape_history[m]
                       /\ result'[m].kind = "None"
                  ELSE /\ Steps(m)
                       /\ read'[m] = key
                       /\ state'[m] = action_table[m][state[m]][key].new_state
      ]_vars

\* the first step read a character that had both an exact and a different
\* wildcard entry, and took the exact one
C2_Witness ==
    \E m \in Machines :
        /\ StepsTaken(m) = 1
        /\ ValidIndex(file.tape, file.head)
        /\ file.state \in DOMAIN action_table[m]
        /\ LET entries == action_table[m][file.state]
               c == GetItem(file.tape, file.head)
           IN  /\ {c, "*"} \subseteq DOMAIN entries
               /\ entries[c] # entries["*"]
               /\ read[m] = c

\* the configuration has no applicable transition: the state has no entries
\* at all, or neither the character under the head nor "*" has one
NoTransition(m) ==
    \/ state[m] \notin DOMAIN action_table[m]
    \/ /\ ValidIndex(tape_contents[m], head[m])
       /\ GetItem(tape_contents[m], head[m]) \notin DOMAIN action_table[m][state[m]]
       /\ "*" \notin DOMAIN action_table[m][state[m]]

\* C3: from a non-halt configuration without an applicable transition the
\* call can only end, and it ends with the error result, which carries no
\* trace, not even the snapshots accumulated so far.
C3_NoTransitionIsError ==
    [][ \A m \in Machines :
          (Iterates(m) /\ ~(state[m] = halt_state[m]) /\ NoTransition(m)) =>
              /\ pc'[m] = "done"
              /\ result'[m].kind = "None"
              /\ result'[m].trace = <<>>
      ]_vars

\* a run got stuck after at least one step, in a state that has entries
C3_Witness ==
    \E m \in Machines :
        /\ pc[m] = "done"
        /\ result[m].kind = "None"
        /\ result[m].steps >= 1
        /\ state[m] \in DOMAIN action_table[m]

\* C4: entry k of the accumulated (and of the returned) trace is the full
\* tracked tape content after exactly k steps, from k = 0, the initial
\* tape, on; so the trace holds one entry more than steps were taken.
C4_TraceIsHistory ==
    \A m \in Machines :
        pc[m] \in {"running", "done"} =>
            /\ Len(all_tape_contents[m]) = StepsTaken(m) + 1
            /\ \A k \in 1..Len(tape_history[m]) :
                   all_tape_contents[m][k] = Join(tape_history[m][k])
            /\ (pc[m] = "done" /\ result[m].kind = "trace") =>
                   result[m].trace = all_tape_contents[m]

\* a trace of three different snapshots was returned
C4_Witness ==
    \E m \in Machines :
        /\ pc[m] = "done"
        /\ result[m].kind = "trace"
        /\ Len(result[m].trace) = 3
        /\ result[m].trace[1] # result[m].trace[2]
        /\ result[m].trace[2] # result[m].trace[3]

\* C5: when the start state is the halt state, execute() takes no step and
\* returns the trace holding exactly the initial tape snapshot, whatever
\* the tape, the head offset and the transition table are.
C5_ImmediateHalt ==
    \A m \in Machines :
        (pc[m] = "done" /\ file.state = file.halt) =>
            /\ result[m].kind = "trace"
            /\ result[m].trace = << Join(file.tape) >>
            /\ result[m].steps = 0
            /\ tape_contents[m] = file.tape
            /\ head[m] = file.head

\* an immediate halt with the head outside the tape and a table that has
\* an entry for the start state
C5_Witness ==
    \E m \in Machines :
        /\ pc[m] = "done"
        /\ file.state = file.halt
        /\ ~ValidIndex(file.tape, file.head)
        /\ file.state \in DOMAIN action_table[m]

\* C6: execute() ends with a trace or with the error result, never with an
\* unstructured fault, for every configuration read_machine accepts.
C6_NoUnstructuredFault ==
    \A m \in Machines : result[m].kind # "IndexError"

\* C7: an iteration whose lookup finds no transition changes neither the
\* tape, nor the head, nor the current state, nor the transition table.
C7_FailedLookupMutatesNothing ==
    [][ \A m \in Machines :
          (pc[m] = "running" /\ pc'[m] = "done" /\ result'[m].kind = "None") =>
              /\ tape_contents' = tape_contents
              /\ head' = head
              /\ state' = state
              /\ action_table' = action_table
      ]_vars

\* a lookup failed because the current state is no key of the table, and
\* the table still has no entry for it
C7_Witness ==
    \E m \in Machines :
        /\ pc[m] = "done"
        /\ result[m].kind = "None"
        /\ state[m] \notin DOMAIN action_table[m]
        /\ action_table[m] # EmptyDict

\* C8: two runs from one configuration end alike: the same trace, or the
\* same error after the same number of steps.
C8_Determinism ==
    (pc[1] = "done" /\ pc[2] = "done") => result[1] = result[2]

\* both runs ended with the error result after at least one step
C8_Witness ==
    /\ pc[1] = "done"
    /\ pc[2] = "done"
    /\ result[1].kind = "None"
    /\ result[2].kind = "None"
    /\ result[1].steps >= 1

\* C9: a step whose action has write = "*" leaves the symbol at the
\* pre-move head position as it was (one cell further right when a blank
\* was prepended) and still moves the head, grows the tape when the head
\* leaves it, and changes the state.
C9_NoWrite ==
    [][ \A m \in Machines :
          (Steps(m) /\ Taken(m).write = "*") =>
              LET old == tape_contents[m]
                  p == Position(old, head[m])
                  moved == head[m] + Taken(m).direction
                  grown == moved < 0 \/ moved >= Len(old)
              IN  /\ tape_contents'[m][IF moved < 0 THEN p + 1 ELSE p] = old[p]
                  /\ head'[m] = (IF moved < 0 THEN 0 ELSE moved)
                  /\ Len(tape_contents'[m]) = Len(old) + (IF grown THEN 1 ELSE 0)
                  /\ state'[m] = Taken(m).new_state
      ]_vars

\* the first step wrote nothing, moved the head off the tape and changed
\* the state
C9_Witness ==
    \E m \in Machines :
        /\ StepsTaken(m) = 1
        /\ FirstTaken(m).write = "*"
        /\ FirstTaken(m).direction # 0
        /\ FirstTaken(m).new_state # file.state
        /\ Len(tape_contents[m]) = Len(file.tape) + 1
        /\ state[m] = FirstTaken(m).new_state

\* C10: a step with move = -1 taken at head = 0 prepends exactly one blank,
\* leaves the head at 0 and shifts every tracked symbol one index to the
\* right: the symbol of old index 0, after the step's write, is at index 1.
C10_UnderflowGrowth ==
    [][ \A m \in Machines :
          (Steps(m) /\ head[m] = 0 /\ Taken(m).direction = -1) =>
              LET old == tape_contents[m]
                  new == tape_contents'[m]
              IN  /\ Len(new) = Len(old) + 1
                  /\ new[1] = "-"
                  /\ head'[m] = 0
                  /\ new[2] = (IF Taken(m).write = "*" THEN old[1] ELSE Taken(m).write)
                  /\ \A i \in 2..Len(old) : new[i + 1] = old[i]
      ]_vars

\* the first step, at head 0, wrote a symbol and moved left
C10_Witness ==
    \E m \in Machines :
        /\ StepsTaken(m) = 1
        /\ file.head = 0
        /\ FirstTaken(m).direction = -1
        /\ FirstTaken(m).write # "*"
        /\ head[m] = 0
        /\ tape_contents[m][1] = "-"
        /\ tape_contents[m][2] = FirstTaken(m).write

\* C11: a step with move = +1 taken with the head on the last tracked cell
\* appends exactly one blank and leaves the head equal to the old length,
\* now the last index; the cells tracked before keep their indices (the
\* one under the head holding what the step wrote).
C11_OverflowGrowth ==
    [][ \A m \in Machines :
          (Steps(m) /\ head[m] = Len(tape_contents[m]) - 1 /\ Taken(m).direction = 1) =>
              LET old == tape_contents[m]
                  new == tape_contents'[m]
              IN  /\ Len(new) = Len(old) + 1
                  /\ new[Len(new)] = "-"
                  /\ head'[m] = Len(old)
                  /\ head'[m] = Len(new) - 1
                  /\ \A i \in 1..Len(old) :
                         new[i] = (IF i = Len(old) /\ Taken(m).write # "*"
                                   THEN Taken(m).write ELSE old[i])
      ]_vars

\* the first step, on the last cell of the initial tape, wrote a symbol,
\* moved right and got a fresh blank under the head
C11_Witness ==
    \E m \in Machines :
        /\ StepsTaken(m) = 1
        /\ file.head = Len(file.tape) - 1
        /\ FirstTaken(m).direction = 1
        /\ FirstTaken(m).write \notin {"*", ""}
        /\ Len(tape_contents[m]) = Len(file.tape) + 1
        /\ head[m] = Len(file.tape)
        /\ tape_contents[m][head[m] + 1] = "-"
        /\ tape_contents[m][head[m]] = FirstTaken(m).write

\* C12: execution never changes the transition table: over every step of
\* execute(), a failed lookup included, the table keeps exactly the states
\* and entries it had when execute() began (no empty per-state entry is
\* created for a state that has none).
C12_TableReadOnly ==
    [][ \A m \in Machines :
          pc[m] \in {"loaded", "running"} => action_table'[m] = action_table[m]
      ]_vars

\* a run took a step and then failed a lookup, and the table is still the
\* one the lines of the file define
C12_Witness ==
    \E m \in Machines :
        /\ pc[m] = "done"
        /\ result[m].kind = "None"
        /\ StepsTaken(m) >= 1
        /\ action_table[m] # EmptyDict
        /\ action_table[m] = AddLines(EmptyDict, m, file.lines)

\* C13: of two machines that share one transition table, no step of one
\* changes the tape, the head or the state of the other (so each runs as
\* it would alone).
C13_SharedTableIndependence ==
    [][ \A m \in Machines :
          Steps(m) =>
              \A o \in Machines \ {m} :
                  /\ tape_contents'[o] = tape_contents[o]
                  /\ head'[o] = head[o]
                  /\ state'[o] = state[o]
      ]_vars

\* the configuration has an applicable transition: an entry for the
\* character under the head, or a wildcard entry, in the current state
Applicable(m) ==
    /\ state[m] \in DOMAIN action_table[m]
    /\ ValidIndex(tape_contents[m], head[m])
    /\ LookupKey(action_table[m], state[m],
                 GetItem(tape_contents[m], head[m])) # NotFound

\* C14: execute() returns a trace exactly when the run is in the halt
\* state, returns the error exactly when it is in a non-halt configuration
\* without applicable transition, and otherwise can only take the next
\* step: as long as a transition applies and the halt state is not entered
\* the next step is always possible, whatever the number of steps taken
\* (followed here up to MaxSteps steps).
C14_ReturnsOnlyAtHaltOrStuck ==
    /\ [][ \A m \in Machines :
             Iterates(m) =>
                 /\ (pc'[m] = "done" /\ result'[m].kind = "trace")
                        <=> (state[m] = halt_state[m])
                 /\ (pc'[m] = "done" /\ result'[m].kind = "trace")
                        => (state'[m] = halt_state'[m])
                 /\ (pc'[m] = "done" /\ result'[m].kind = "None")
                        <=> (state[m] # halt_state[m] /\ NoTransition(m))
                 /\ (state[m] # halt_state[m] /\ Applicable(m))
                        => (Steps(m) /\ pc'[m] = "running")
         ]_vars
    /\ [](\A m \in Machines :
             (/\ pc[m] = "running"
              /\ state[m] # halt_state[m]
              /\ Applicable(m)
              /\ StepsTaken(m) < MaxSteps) => ENABLED execute_step(m))

\* a run has taken every step the model follows, is not in the halt state
\* and still has an applicable transition
C14_Witness ==
    \E m \in Machines :
        /\ pc[m] = "running"
        /\ StepsTaken(m) = MaxSteps
        /\ state[m] # halt_state[m]
        /\ Applicable(m)

\* line i of the description is the last one registering its key
LastForKey(lines, i) ==
    \A j \in DOMAIN lines :
        (lines[j].state = lines[i].state /\ lines[j].read = lines[i].read) => j <= i

\* C15: after loading, the table has exactly the (state, read symbol) keys
\* the transition lines register, one entry per key, and the entry of a key
\* is the action of the last line that registers it, for exact and for
\* wildcard keys alike.
C15_LastWriteWins ==
    \A m \in Machines :
        pc[m] \in {"loaded", "running", "done"} =>
            LET table == action_table[m]
                lines == file.lines
            IN  /\ DOMAIN table = { lines[i].state : i \in DOMAIN lines }
                /\ \A s \in DOMAIN table :
                       DOMAIN table[s] =
                           { lines[i].read : i \in { j \in DOMAIN lines : lines[j].state = s } }
                /\ \A i \in DOMAIN lines :
                       LastForKey(lines, i) =>
                           LET entry == table[lines[i].state][lines[i].read]
                           IN  /\ entry.write = lines[i].write
                               /\ entry.direction = lines[i].direction
                               /\ entry.new_state = lines[i].new_state

\* two lines of the file register the wildcard key of one state with
\* different actions, and the table holds the action of the second
C15_Witness ==
    \E m \in Machines :
        /\ pc[m] = "loaded"
        /\ Len(file.lines) = 2
        /\ file.lines[1].state = file.lines[2].state
        /\ file.lines[1].read = "*"
        /\ file.lines[2].read = "*"
        /\ file.lines[1].write # file.lines[2].write
        /\ action_table[m][file.lines[2].state]["*"].write = file.lines[2].write
        /\ Cardinality(DOMAIN action_table[m][file.lines[2].state]) = 1

\* C16: when the initial tape holds no "*", no cell of the tape holds "*"
\* in any state of the run, whatever the write fields of the table are.
C16_NoWildcardOnTape ==
    (\A i \in DOMAIN file.tape : file.tape[i] # "*") =>
        \A m \in Machines :
            \A i \in DOMAIN tape_contents[m] : tape_contents[m][i] # "*"

\* two steps were taken, the first through a wildcard entry whose write
\* field is "*"
C16_Witness ==
    \E m \in Machines :
        /\ StepsTaken(m) = 2
        /\ file.state \in DOMAIN action_table[m]
        /\ "*" \in DOMAIN action_table[m][file.state]
        /\ action_table[m][file.state]["*"].write = "*"
        /\ ValidIndex(file.tape, file.head)
        /\ GetItem(file.tape, file.head) \notin DOMAIN action_table[m][file.state]
        /\ \A i \in DOMAIN tape_contents[m] : tape_contents[m][i] # "*"

\* a transition line as the specification wants it: exactly five fields,
\* read and write of exactly one character, integers for the state, the
\* direction and the new state, and a direction of -1, 0 or 1
WellFormedLine(fields) ==
    /\ Len(fields) = FieldsNeeded
    /\ Len(fields[2]) = 1
    /\ Len(fields[3]) = 1
    /\ IsInt(fields[1])
    /\ IsInt(fields[4])
    /\ IsInt(fields[5])
    /\ IntValue(fields[4]) \in {-1, 0, 1}

WellFormed(t) ==
    /\ Len(t) >= HeaderLines
    /\ \A i \in 2..HeaderLines : IsInt(t[i])
    /\ \A i \in (HeaderLines + 1)..Len(t) : WellFormedLine(Split(t[i]))

\* C17: read_machine reports success only for a description of at least 4
\* lines whose transition lines all have exactly 5 fields, one-character
\* read and write fields, a direction in {-1, 0, 1} and integer fields
\* that parse; every other description is rejected.
C17_LoaderValidates ==
    \A m \in Machines : pc[m] = "loaded" => WellFormed(text)

\* C18 as claimed: the step that enters the halt state appends a blank in
\* scenario A, whose trace is ["101", "001", "001-"].
C18_ScenarioA_AsClaimed ==
    \A m \in Machines :
        (file = ScenarioA /\ pc[m] = "done") =>
            /\ result[m].kind = "trace"
            /\ result[m].trace = << << "1", "0", "1" >>,
                                    << "0", "0", "1" >>,
                                    << "0", "0", "1", "-" >> >>

\* C18, amended: the step that enters the halt state still applies its
\* write and its head move, and the tape it leaves is the last entry of
\* the trace returned; in scenario A the trace is ["101", "001", "001"]:
\* the last step moves the head to index 2, inside the tape of length 3,
\* so no blank is appended.
C18_HaltingStepApplied ==
    \A m \in Machines :
        (pc[m] = "done" /\ result[m].kind = "trace") =>
            /\ result[m].trace[Len(result[m].trace)] = Join(tape_contents[m])
            /\ tape_history[m][Len(tape_history[m])] = tape_contents[m]
            /\ file = ScenarioA =>
                   /\ result[m].trace = << << "1", "0", "1" >>,
                                           << "0", "0", "1" >>,
                                           << "0", "0", "1" >> >>
                   /\ tape_contents[m] = << "0", "0", "1" >>
                   /\ head[m] = 2
                   /\ state[m] = ScenarioA.halt

\* scenario A has run to its end
C18_Witness ==
    \E m \in Machines :
        /\ file = ScenarioA
        /\ pc[m] = "done"
        /\ result[m].kind = "trace"
        /\ result[m].steps = 2

\* C19: across a run the trace snapshots never get shorter: each snapshot
\* is at least as long as the one before it.
C19_SnapshotsNeverShrink ==
    \A m \in Machines :
        \A k \in 1..(Len(all_tape_contents[m]) - 1) :
            Len(all_tape_contents[m][k + 1]) >= Len(all_tape_contents[m][k])

\* C20: a step started with 0 <= head < len(tape_contents) changes at most
\* the cell under the pre-move head; every other cell tracked before keeps
\* its symbol and its order, and the tape gains at most one cell, a blank
\* "-" at its left or its right end.
C20_StepFrame ==
    [][ \A m \in Machines :
          (Steps(m) /\ 0 <= head[m] /\ head[m] < Len(tape_contents[m])) =>
              LET old == tape_contents[m]
                  new == tape_contents'[m]
                  others == (1..Len(old)) \ { head[m] + 1 }
              IN  \/ /\ Len(new) = Len(old)
                     /\ \A i \in others : new[i] = old[i]
                  \/ /\ Len(new) = Len(old) + 1
                     /\ new[Len(new)] = "-"
                     /\ \A i \in others : new[i] = old[i]
                  \/ /\ Len(new) = Len(old) + 1
                     /\ new[1] = "-"
                     /\ \A i \in others : new[i + 1] = old[i]
      ]_vars

\* the latest step, on a tape of at least two cells and with the head off
\* the first cell, changed the cell under the head and no other
C20_Witness ==
    \E m \in Machines :
        /\ pc[m] = "running"
        /\ Len(tape_history[m]) >= 2
        /\ LET n == Len(tape_history[m])
               old == tape_history[m][n - 1]
               new == tape_history[m][n]
           IN  /\ Len(old) >= 2
               /\ Len(new) = Len(old)
               /\ \E i \in 2..Len(old) :
                      /\ new[i] # old[i]
                      /\ \A j \in (1..Len(old)) \ {i} : new[j] = old[j]
====
